---- MODULE Spec2Model ----
(***************************************************************************)
(* A model of mrkd (src/mrkd/__init__.py): the Markdown-to-Roff/HTML       *)
(* converter.  Python strings are modelled as sequences of one-character   *)
(* strings, so that escaping, splitting and replacing are computed         *)
(* character by character as the code computes them.  The character '\0'   *)
(* (the list-item sentinel) is written NUL.                                *)
(***************************************************************************)
EXTENDS Integers, Sequences, FiniteSets, TLC

VARIABLES
    pc,           \* position of the driver / of the parser walk
    fmt,          \* args.format: "roff" or "html"
    name,         \* renderer.name
    sect,         \* renderer.sect
    index,        \* renderer.index: a mapping from composite keys to URLs
    description,  \* renderer.description: <<>> while the attribute is absent, <<d>> once set
    doc,          \* the block events the parser has handed to the renderer so far
    result,       \* the rendered output accumulated so far
    page,         \* <<>> or <<p>>: what the template collaborator was handed
    output,       \* <<>> while nothing was written, <<w>> once w was written to args.output
    args,         \* the parsed command line
    hdr,          \* the Header(text, level, raw) event under study
    src,          \* an inline source text
    rest,         \* the part of src the inline lexer has not consumed yet
    events,       \* the inline render events emitted so far
    plain,        \* a plain text before rendering
    wraps,        \* the inline constructs applied around it, innermost first
    stack,        \* the open lists of the parser's recursion, innermost last
    call          \* <<>> or <<c>>: the last call of RoffRenderer.list

vars == <<pc, fmt, name, sect, index, description, doc, result, page, output,
          args, hdr, src, rest, events, plain, wraps, stack, call>>

-----------------------------------------------------------------------------
(* Bounds of the model. *)

MaxRawLen == 5
MaxSrcLen == 5
MaxPlainLen == 3
MaxWraps == 2
MaxBlocks == 3
MaxDepth == 2
MaxItems == 2

-----------------------------------------------------------------------------
(* Python's string operations, as the code uses them. *)

NUL == "NUL"

\* the backtick character, which a TLA+ string cannot hold
BACKTICK == "BACKTICK"

Range(s) == {s[i] : i \in 1..Len(s)}

Drop(s, n) == SubSeq(s, n + 1, Len(s))

startswith(s, p) == Len(p) <= Len(s) /\ SubSeq(s, 1, Len(p)) = p

Min(S) == CHOOSE x \in S : \A y \in S : x <= y

Max(S) == CHOOSE x \in S : \A y \in S : x >= y

\* s.find(sub) + 1: the position of the first occurrence, 0 when there is none
find(s, sub) ==
    LET hits == {i \in 1..(Len(s) - Len(sub) + 1) : SubSeq(s, i, i + Len(sub) - 1) = sub}
    IN  IF hits = {} THEN 0 ELSE Min(hits)

\* sub in s
contains(s, sub) == find(s, sub) # 0

\* s.replace(old, new): the occurrences of old are replaced from the left
RECURSIVE replace(_, _, _)
replace(s, old, new) ==
    LET i == find(s, old)
    IN  IF i = 0 THEN s
        ELSE SubSeq(s, 1, i - 1) \o new \o replace(Drop(s, i - 1 + Len(old)), old, new)

\* s.split(sep)
RECURSIVE split(_, _)
split(s, sep) ==
    LET i == find(s, sep)
    IN  IF i = 0 THEN <<s>>
        ELSE <<SubSeq(s, 1, i - 1)>> \o split(Drop(s, i - 1 + Len(sep)), sep)

\* s.split(sep, 1)
split1(s, sep) ==
    LET i == find(s, sep)
    IN  IF i = 0 THEN <<s>> ELSE <<SubSeq(s, 1, i - 1), Drop(s, i - 1 + Len(sep))>>

whitespace == {" ", "\t", "\n", "\r", "\f"}

\* s.lstrip(chars)
lstrip(s, chars) == Drop(s, Max({n \in 0..Len(s) : \A i \in 1..n : s[i] \in chars}))

\* s.rstrip(chars)
rstrip(s, chars) ==
    SubSeq(s, 1, Len(s) - Max({n \in 0..Len(s) : \A i \in 1..n : s[Len(s) + 1 - i] \in chars}))

\* s.strip()
strip(s) == rstrip(lstrip(s, whitespace), whitespace)

RECURSIVE join(_, _)
join(sep, a) ==
    IF a = <<>> THEN <<>>
    ELSE IF Len(a) = 1 THEN a[1]
    ELSE a[1] \o sep \o join(sep, Tail(a))

\* lines = lambda *a: '\n'.join(a) + '\n'
lines(a) == join(<<"\n">>, a) \o <<"\n">>

ascii_lowercase == <<"a", "b", "c", "d", "e", "f", "g", "h", "i", "j", "k", "l", "m", "n", "o", "p", "q", "r", "s", "t", "u", "v", "w", "x", "y", "z">>
ascii_uppercase == <<"A", "B", "C", "D", "E", "F", "G", "H", "I", "J", "K", "L", "M", "N", "O", "P", "Q", "R", "S", "T", "U", "V", "W", "X", "Y", "Z">>
digits == <<"0", "1", "2", "3", "4", "5", "6", "7", "8", "9">>

Pos(alphabet, c) == CHOOSE i \in 1..Len(alphabet) : alphabet[i] = c

lowerChar(c) ==
    IF c \in Range(ascii_uppercase) THEN ascii_lowercase[Pos(ascii_uppercase, c)] ELSE c

upperChar(c) ==
    IF c \in Range(ascii_lowercase) THEN ascii_uppercase[Pos(ascii_lowercase, c)] ELSE c

lower(s) == [i \in 1..Len(s) |-> lowerChar(s[i])]

upper(s) == [i \in 1..Len(s) |-> upperChar(s[i])]

\* ''.join(c for c in s if c in keep)
filter(s, keep) ==
    LET kept == {i \in 1..Len(s) : s[i] \in keep}
    IN  [j \in 1..Cardinality(kept) |->
            s[CHOOSE i \in kept : Cardinality({k \in kept : k <= i}) = j]]

\* str(n) for n >= 0
RECURSIVE str(_)
str(n) == IF n < 10 THEN <<digits[n + 1]>> ELSE str(n \div 10) \o <<digits[(n % 10) + 1]>>

\* the strings over an alphabet, up to a length
RECURSIVE Strings(_, _)
Strings(alphabet, n) ==
    IF n = 0 THEN {<<>>}
    ELSE LET shorter == Strings(alphabet, n - 1)
         IN  shorter \cup {Append(s, c) : s \in {t \in shorter : Len(t) = n - 1}, c \in alphabet}

-----------------------------------------------------------------------------
(* RoffRenderer. *)

Roff_double_emphasis(text) == <<"\\", "f", "B">> \o text \o <<"\\", "f", "R">>

Roff_emphasis(text) == <<"\\", "f", "I">> \o text \o <<"\\", "f", "R">>

\* a variant of Roff_text that escapes the periods before the backslashes
Roff_text_periods_first(text) == replace(replace(text, <<".">>, <<"\\", ".">>), <<"\\">>, <<"\\", "\\">>)

\* text.replace('\\', '\\\\').replace('.', '\.')
Roff_text(text) == replace(replace(text, <<"\\">>, <<"\\", "\\">>), <<".">>, <<"\\", ".">>)

Roff_strikethrough(text) == Roff_text(text)

\* title and content are <<>> for None, <<t>> otherwise
Roff_link(link, title, content) ==
    IF content = <<>> THEN Roff_emphasis(link)
    ELSE IF title = <<>>
    THEN Roff_double_emphasis(content[1]) \o <<" ", "(">> \o Roff_emphasis(link) \o <<")">>
    ELSE Roff_double_emphasis(content[1]) \o <<" ", "(">> \o title[1] \o <<":", " ">>
             \o Roff_emphasis(link) \o <<")">>

Roff_reference(text, section, idx) ==
    Roff_double_emphasis(text) \o <<"(">> \o section \o <<")">>

Roff_paragraph(text) == lines(<< <<>>, text, <<>> >>)

Roff_list_item(text) == lines(<< <<NUL>>, text >>)

RECURSIVE Roff_list_chunks(_, _)
\* the loop of list(): one .IP count\. per chunk, count running from the given value
Roff_list_chunks(chunks, count) ==
    IF chunks = <<>> THEN <<>>
    ELSE <<".", "I", "P", " ">> \o str(count) \o <<"\\", ".">> \o Head(chunks)
             \o Roff_list_chunks(Tail(chunks), count + 1)

\* assert body[0] == '\0' (body[0] of an empty body raises as well)
Roff_list_fails(body, ordered) == ordered /\ (body = <<>> \/ body[1] # NUL)

Roff_list(body, ordered) ==
    LET contents == IF ordered
                    THEN Roff_list_chunks(Tail(split(body, <<NUL>>)), 1)
                    ELSE replace(body, <<NUL>>, <<".", "I", "P", " ", "\\", "[", "b", "u", "]">>)
    IN  lines(<< <<>>, <<".", "R", "S">>, contents, <<".", "R", "E">> >>)

\* the level-1 header check that ends in sys.exit, the same in both renderers
header_invalid(level, raw) == level = 1 /\ ~contains(raw, <<"-", "-">>)

\* a variant of header_description that splits at the last '--' (raw.rsplit('--', 1))
RECURSIVE header_description_rsplit(_)
header_description_rsplit(raw) ==
    IF contains(split1(raw, <<"-", "-">>)[2], <<"-", "-">>)
    THEN header_description_rsplit(Tail(raw))
    ELSE strip(split1(raw, <<"-", "-">>)[2])

\* raw.split('--', 1)[1].strip(), the same in both renderers
header_description(raw) == strip(split1(raw, <<"-", "-">>)[2])

\* the display form of a level-1 header: text.replace("--", "-")
header_display(text) == replace(text, <<"-", "-">>, <<"-">>)

Roff_header(text, level, raw, nm, sc) ==
    IF level = 1
    THEN lines(<< <<".", "T", "H", " ", "\"">> \o upper(nm) \o <<"\"", " ", "\"">> \o sc \o <<"\"", " ", "\"", "\"", " ", "\"", "\"", " ", "\"">> \o nm \o <<"\"">>,
                  <<".", "S", "H", " ", "N", "A", "M", "E">>,
                  header_display(text) >>)
    ELSE lines(<< <<".", "S", "H", " ">> \o text >>)

-----------------------------------------------------------------------------
(* HtmlRenderer; what it does not define it inherits from mistune.Renderer. *)

\* mistune.escape: & < > become entities
Html_text(text) ==
    replace(replace(replace(text, <<"&">>, <<"&", "a", "m", "p", ";">>), <<"<">>, <<"&", "l", "t", ";">>), <<">">>, <<"&", "g", "t", ";">>)

Html_double_emphasis(text) == <<"<", "s", "t", "r", "o", "n", "g", ">">> \o text \o <<"<", "/", "s", "t", "r", "o", "n", "g", ">">>

\* mistune.Renderer.paragraph: '<p>%s</p>\n' % text.strip(' ')
Html_paragraph(text) == <<"<", "p", ">">> \o rstrip(lstrip(text, {" "}), {" "}) \o <<"<", "/", "p", ">", "\n">>

Html_linebreak == <<"<", "b", "r", ">", "\n">>

\* a variant of Html_reference that looks the name alone up in the index
Html_reference_by_name(text, section, idx) ==
    LET cited == Html_double_emphasis(text) \o <<"(">> \o section \o <<")">>
    IN  IF text \in DOMAIN idx
        THEN <<"<", "a", " ", "h", "r", "e", "f", "=", "\"">> \o idx[text] \o <<"\"", ">">> \o cited \o <<"<", "/", "a", ">">>
        ELSE cited

Html_reference(text, section, idx) ==
    LET cited == Html_double_emphasis(text) \o <<"(">> \o section \o <<")">>
        key == text \o <<"(">> \o section \o <<")">>
    IN  IF key \in DOMAIN idx
        THEN <<"<", "a", " ", "h", "r", "e", "f", "=", "\"">> \o idx[key] \o <<"\"", ">">> \o cited \o <<"<", "/", "a", ">">>
        ELSE cited

header_chars == Range(ascii_lowercase) \cup Range(ascii_uppercase) \cup Range(digits)
                    \cup {"_", "-", "."}

\* a variant of Html_header_ref that derives the id from the text in scope
Html_header_ref_of_text(text, raw) == lower(filter(replace(text, <<" ">>, <<"-">>), header_chars))

\* ref = ''.join(c for c in raw.replace(' ', '-') if c in chars).lower();
\* text is the text in scope there, 'NAME' for a level-1 header
Html_header_ref(text, raw) == lower(filter(replace(raw, <<" ">>, <<"-">>), header_chars))

Html_header(text, level, raw) ==
    LET post == IF level = 1 THEN header_display(text) ELSE <<>>
        text2 == IF level = 1 THEN <<"N", "A", "M", "E">> ELSE text
        level2 == IF level = 1 THEN 2 ELSE level
        ref == Html_header_ref(text2, raw)
    IN  lines(<< <<"<", "h">> \o str(level2) \o <<" ", "i", "d", "=", "\"">> \o ref \o <<"\"", ">">>
                    \o <<"<", "a", " ", "c", "l", "a", "s", "s", "=", "\"", "h", "l", "\"", " ", "h", "r", "e", "f", "=", "\"", "#">> \o ref \o <<"\"", ">">> \o text2 \o <<"<", "/", "a", ">">>
                    \o <<"<", "/", "h">> \o str(level2) \o <<">">>,
                 post >>)

\* the renderer selected by args.format
render_text(f, text) == IF f = "roff" THEN Roff_text(text) ELSE Html_text(text)

render_reference(f, text, section, idx) ==
    IF f = "roff" THEN Roff_reference(text, section, idx) ELSE Html_reference(text, section, idx)

render_paragraph(f, text) == IF f = "roff" THEN Roff_paragraph(text) ELSE Html_paragraph(text)

render_header(f, text, level, raw, nm, sc) ==
    IF f = "roff" THEN Roff_header(text, level, raw, nm, sc) ELSE Html_header(text, level, raw)

-----------------------------------------------------------------------------
(* ReferenceLexer: the inline lexer with the reference rule put first and  *)
(* the text rule replaced.  mistune tries its rules in order on the text   *)
(* that is left, and the first rule that matches consumes its match.  The  *)
(* rules modelled are reference, linebreak and text; the inline sources of *)
(* the model hold none of the characters \ < ! [ _ * ~, no backtick and   *)
(* no URL, so none of mistune's other rules ever matches on them.          *)

\* the character class [A-Za-z-_.] of both regular expressions
ident_chars == Range(ascii_lowercase) \cup Range(ascii_uppercase) \cup {"-", "_", "."}

\* the length of the longest prefix of s made of characters of cls
run(s, cls) == Max({n \in 0..Len(s) : \A i \in 1..n : s[i] \in cls})

\* rules.reference = ^([A-Za-z-_.]+)\((\d+)\): <<>> or <<the match>>
rules_reference(s) ==
    LET n == run(s, ident_chars)
        d == run(Drop(s, n + 1), Range(digits))
    IN  IF /\ n >= 1
           /\ Len(s) >= n + d + 2
           /\ s[n + 1] = "("
           /\ d >= 1
           /\ s[n + d + 2] = ")"
        THEN << [len |-> n + d + 2,
                 text |-> SubSeq(s, 1, n),
                 section |-> SubSeq(s, n + 2, n + d + 1)] >>
        ELSE <<>>

\* the lookahead [A-Za-z-_.]+\(\d of rules.text
reference_ahead(s) ==
    LET n == run(s, ident_chars)
    IN  n >= 1 /\ Len(s) >= n + 2 /\ s[n + 1] = "(" /\ s[n + 2] \in Range(digits)

\* the lookahead ' {2,}\n' of rules.text
linebreak_ahead(s) ==
    LET k == run(s, {" "}) IN k >= 2 /\ Len(s) >= k + 1 /\ s[k + 1] = "\n"

\* mistune's linebreak rule ^ {2,}\n(?!\s*$): 0 or the length of the match
rules_linebreak(s) ==
    LET k == run(s, {" "})
    IN  IF linebreak_ahead(s) /\ run(Drop(s, k + 1), whitespace) # Len(s) - k - 1
        THEN k + 1 ELSE 0

\* the lookahead of rules.text: (?=[\\<!\[_*BACKTICK~]|[A-Za-z-_.]+\(\d|https?://| {2,}\n|$)
text_stop(s) ==
    \/ s = <<>>
    \/ s = <<"\n">>
    \/ Head(s) \in {"\\", "<", "!", "[", "_", "*", BACKTICK, "~"}
    \/ reference_ahead(s)
    \/ startswith(s, <<"h", "t", "t", "p", ":", "/", "/">>)
    \/ startswith(s, <<"h", "t", "t", "p", "s", ":", "/", "/">>)
    \/ linebreak_ahead(s)

\* rules.text = ^[\s\S]+? up to the first place where the lookahead holds
rules_text(s) == Min({k \in 1..Len(s) : text_stop(Drop(s, k))})

Event(type, text, section) == [type |-> type, text |-> text, section |-> section]

\* the first rule that matches on s (s is not empty): the event and its length
lex_first(s) ==
    LET r == rules_reference(s)
        b == rules_linebreak(s)
        t == rules_text(s)
    IN  IF r # <<>> THEN [len |-> r[1].len, event |-> Event("reference", r[1].text, r[1].section)]
        ELSE IF b # 0 THEN [len |-> b, event |-> Event("linebreak", <<>>, <<>>)]
        ELSE [len |-> t, event |-> Event("text", SubSeq(s, 1, t), <<>>)]

\* the inline events of a source text, in order
RECURSIVE lex(_)
lex(s) == IF s = <<>> THEN <<>> ELSE <<lex_first(s).event>> \o lex(Drop(s, lex_first(s).len))

\* RoffRenderer.linebreak is assert 0
linebreak_fails(f) == f = "roff"

render_event(f, idx, e) ==
    IF e.type = "reference" THEN render_reference(f, e.text, e.section, idx)
    ELSE IF e.type = "linebreak" THEN Html_linebreak
    ELSE render_text(f, e.text)

RECURSIVE render_events(_, _, _)
render_events(f, idx, evs) ==
    IF evs = <<>> THEN <<>>
    ELSE render_event(f, idx, Head(evs)) \o render_events(f, idx, Tail(evs))

\* InlineLexer.output: the concatenation of the renderings of the events
inline(f, idx, s) == render_events(f, idx, lex(s))

inline_fails(f, s) == linebreak_fails(f) /\ \E i \in 1..Len(lex(s)) : lex(s)[i].type = "linebreak"

-----------------------------------------------------------------------------
(* The block events of a document and what the renderer does with each.    *)
(* mistune.Markdown renders the inline text of a block first and hands the *)
(* result to the renderer's method for the block.                          *)

Header(level, raw) == [type |-> "header", level |-> level, raw |-> raw]

Paragraph(raw) == [type |-> "paragraph", level |-> 0, raw |-> raw]

\* the conversion ends inside this block: sys.exit in header(), assert 0 in linebreak()
block_fails(f, b) ==
    \/ inline_fails(f, b.raw)
    \/ b.type = "header" /\ header_invalid(b.level, b.raw)

\* self.description after the block, d before it
block_description(d, b) ==
    IF b.type = "header" /\ b.level = 1 THEN <<header_description(b.raw)>> ELSE d

block_render(f, idx, nm, sc, b) ==
    IF b.type = "header"
    THEN render_header(f, inline(f, idx, b.raw), b.level, b.raw, nm, sc)
    ELSE render_paragraph(f, inline(f, idx, b.raw))

EmptyIndex == [k \in {} |-> <<>>]

Formats == {"roff", "html"}

-----------------------------------------------------------------------------
(* SpecHeader: one Header event, over every raw header text up to          *)
(* MaxRawLen characters (mistune's heading rule strips the blanks around   *)
(* the raw text) and the two headers the documentation gives as examples.  *)

HeaderAlphabet == {"a", "-", " ", "."}

FooRaw == <<"f", "o", "o", " ", "-", "-", " ", "a", " ", "t", "o", "o", "l">>

MrkdRaw == <<"m", "r", "k", "d", " ", "-", "-", " ", "w", "r", "i", "t", "e", " ", "m", "a", "n", " ", "p", "a", "g", "e", "s", " ", "i", "n", " ", "m", "a", "r", "k", "d", "o", "w", "n">>

HeaderRaws ==
    {s \in Strings(HeaderAlphabet, MaxRawLen) : s # <<>> /\ s[1] # " " /\ s[Len(s)] # " "}
        \cup {FooRaw, MrkdRaw}

InitHeader ==
    /\ pc = "header"
    /\ fmt \in Formats
    /\ name = <<"m", "r", "k", "d">>
    /\ sect = <<"1">>
    /\ index = EmptyIndex
    /\ description = <<>>
    /\ hdr \in {Header(l, r) : l \in {1, 2}, r \in HeaderRaws}
    /\ result = <<>>
    /\ doc = <<>> /\ page = <<>> /\ output = <<>> /\ args = <<>>
    /\ src = <<>> /\ rest = <<>> /\ events = <<>>
    /\ plain = <<>> /\ wraps = <<>> /\ stack = <<>> /\ call = <<>>

\* the parser hands the header to renderer.header
RenderHeader ==
    /\ pc = "header"
    /\ IF block_fails(fmt, hdr)
       THEN /\ pc' = "fatal"
            /\ UNCHANGED <<description, result, doc>>
       ELSE /\ pc' = "rendered"
            /\ description' = block_description(description, hdr)
            /\ result' = result \o block_render(fmt, index, name, sect, hdr)
            /\ doc' = Append(doc, hdr)
    /\ UNCHANGED <<fmt, name, sect, index, page, output, args, hdr, src, rest, events,
                   plain, wraps, stack, call>>

NextHeader == RenderHeader

SpecHeader == InitHeader /\ [][NextHeader]_vars

endswith(s, suffix) ==
    Len(suffix) <= Len(s) /\ SubSeq(s, Len(s) - Len(suffix) + 1, Len(s)) = suffix

\* i is the place of the first '--' of raw
FirstDashes(raw, i) ==
    /\ i \in 1..(Len(raw) - 1)
    /\ raw[i] = "-" /\ raw[i + 1] = "-"
    /\ \A j \in 1..(i - 1) : ~(raw[j] = "-" /\ raw[j + 1] = "-")

\* s without the white space at its two ends
Trimmed(s) ==
    LET ns == {k \in 1..Len(s) : s[k] \notin whitespace}
    IN  IF ns = {} THEN <<>> ELSE SubSeq(s, Min(ns), Max(ns))

\* s with '--' replaced by '-' from the left: a run of n hyphens becomes (n + 1) \div 2
RECURSIVE HalveHyphenRuns(_)
HalveHyphenRuns(s) ==
    LET hyphens == {i \in 1..Len(s) : s[i] = "-"}
        i == Min(hyphens)
        n == Max({m \in 1..(Len(s) - i + 1) : \A k \in i..(i + m - 1) : s[k] = "-"})
    IN  IF hyphens = {} THEN s
        ELSE SubSeq(s, 1, i - 1) \o [k \in 1..((n + 1) \div 2) |-> "-"]
                 \o HalveHyphenRuns(Drop(s, i + n - 1))

\* C1: a level-1 header whose raw text contains '--' is rendered, by either
\* renderer, with the description set to the raw text after the first '--',
\* trimmed, and with the displayed header line being the header text with '--'
\* replaced by '-'; a level-1 header is refused only when it has no '--'.
C1_HeaderDescription ==
    /\ (pc = "rendered" /\ hdr.level = 1) =>
          /\ \E i \in 1..Len(hdr.raw) :
                /\ FirstDashes(hdr.raw, i)
                /\ description = <<Trimmed(Drop(hdr.raw, i + 1))>>
          /\ endswith(result, <<"\n">> \o HalveHyphenRuns(inline(fmt, index, hdr.raw))
                                  \o <<"\n">>)
          /\ (hdr.raw = MrkdRaw => description = << <<"w", "r", "i", "t", "e", " ", "m", "a", "n", " ", "p", "a", "g", "e", "s", " ", "i", "n", " ", "m", "a", "r", "k", "d", "o", "w", "n">> >>)
    /\ pc = "fatal" => ~ \E i \in 1..Len(hdr.raw) : FirstDashes(hdr.raw, i)

\* a level-1 header was rendered whose description keeps a later '--' and lost a blank
C1_Witness ==
    /\ pc = "rendered" /\ hdr.level = 1
    /\ description # <<>>
    /\ contains(description[1], <<"-", "-">>)
    /\ \E i \in 1..Len(hdr.raw) : FirstDashes(hdr.raw, i) /\ hdr.raw[i + 2] = " "

\* C8 (as amended): with format=html the header '# foo -- a tool' is rendered
\* as an <h2> heading whose id is derived from the raw header text
\* (foo----a-tool) and whose link text is NAME, followed by the header line
\* with '--' replaced by '-'.
C8_HtmlNameHeading ==
    (pc = "rendered" /\ fmt = "html" /\ hdr = Header(1, FooRaw)) =>
        result = <<"<", "h", "2", " ", "i", "d", "=", "\"", "f", "o", "o", "-", "-", "-", "-", "a", "-", "t", "o", "o", "l", "\"", ">", "<", "a", " ", "c", "l", "a", "s", "s", "=", "\"", "h", "l", "\"", " ", "h", "r", "e", "f", "=", "\"", "#", "f", "o", "o", "-", "-", "-", "-", "a", "-", "t", "o", "o", "l", "\"", ">", "N", "A", "M", "E", "<", "/", "a", ">", "<", "/", "h", "2", ">", "\n", "f", "o", "o", " ", "-", " ", "a", " ", "t", "o", "o", "l", "\n">>

C8_Witness == pc = "rendered" /\ fmt = "html" /\ hdr = Header(1, FooRaw)

\* C8 as stated: the id attribute of that heading is 'name'
C8_Original ==
    (pc = "rendered" /\ fmt = "html" /\ hdr = Header(1, FooRaw)) =>
        startswith(result, <<"<", "h", "2", " ", "i", "d", "=", "\"", "n", "a", "m", "e", "\"", ">", "<", "a", " ", "c", "l", "a", "s", "s", "=", "\"", "h", "l", "\"", " ", "h", "r", "e", "f", "=", "\"", "#", "n", "a", "m", "e", "\"", ">", "N", "A", "M", "E", "<", "/", "a", ">", "<", "/", "h", "2", ">", "\n">>)

-----------------------------------------------------------------------------
(* Spec: main(), the pipeline driver, on documents of up to MaxBlocks      *)
(* block events.                                                           *)

None == <<>>

Some(x) == <<x>>

\* re.match(r'(.*).(\d).[^.]+$', basename): None, or the match with the longest
\* first group; its groups 1 and 2
RECURSIVE source_match(_, _)
source_match(s, i) ==
    IF i < 0 THEN None
    ELSE IF /\ Len(s) >= i + 4
            /\ s[i + 2] \in Range(digits)
            /\ "." \notin Range(Drop(s, i + 3))
         THEN Some([name |-> SubSeq(s, 1, i), section |-> <<s[i + 2]>>])
         ELSE source_match(s, i - 1)

SourceNames == {<<"m", "r", "k", "d", ".", "1", ".", "m", "d">>, <<"R", "E", "A", "D", "M", "E", ".", "m", "d">>}

BarKey == <<"b", "a", "r", "(", "5", ")">>

BarUrl == <<"h", "t", "t", "p", ":", "/", "/", "e", "x", "a", "m", "p", "l", "e", ".", "c", "o", "m", "/", "b", "a", "r">>

\* the index files: each a mapping from section names to the mappings they hold
IndexFiles ==
    {[k \in {"Index"} |-> [c \in {BarKey} |-> BarUrl]],
     [k \in {"Other"} |-> [c \in {BarKey} |-> BarUrl]]}

Args ==
    [source : SourceNames,
     name : {None, Some(<<"f", "o", "o">>)},
     section : {None, Some(<<"7">>)},
     index : {None} \cup {Some(f) : f \in IndexFiles},
     format : Formats,
     output : {"-", "out"}]

\* the block events a document of the model is made of
Blocks ==
    {Header(1, FooRaw), Header(1, <<"b", " ", "-", "-", " ", "c">>), Header(1, <<"m", "r", "k", "d">>),
     Header(2, <<"S", "E", "E", " ", "A", "L", "S", "O">>),
     Paragraph(<<"S", "e", "e", " ", "b", "a", "r", "(", "5", ")", " ", "f", "o", "r", " ", "d", "e", "t", "a", "i", "l", "s", ".">>), Paragraph(<<"a", " ", " ", "\n", "b">>)}

\* a variant of StepAfter that opens and writes the output before the parser runs
StepAfterOutputFirst(p, f) ==
    CASE p = "args" -> "index"
      [] p = "index" -> "write"
      [] p = "write" -> "parse"
      [] p = "parse" -> IF f = "html" THEN "template" ELSE "done"
      [] p = "template" -> "done"

\* the order of main()'s steps
StepAfter(p, f) ==
    CASE p = "args" -> "index"
      [] p = "index" -> "parse"
      [] p = "parse" -> IF f = "html" THEN "template" ELSE "write"
      [] p = "template" -> "write"
      [] p = "write" -> "done"

Init ==
    /\ pc = "args"
    /\ args \in Args
    /\ fmt = args.format
    /\ name = None
    /\ sect = None
    /\ index = EmptyIndex
    /\ description = <<>>
    /\ doc = <<>>
    /\ result = <<>>
    /\ page = <<>>
    /\ output = <<>>
    /\ hdr = <<>> /\ src = <<>> /\ rest = <<>> /\ events = <<>>
    /\ plain = <<>> /\ wraps = <<>> /\ stack = <<>> /\ call = <<>>

\* name and section from the command line, else from the source's file name
ResolveName ==
    /\ pc = "args"
    /\ LET m == source_match(args.source, Len(args.source))
       IN  IF m = None
           THEN IF args.name = None \/ args.section = None
                THEN /\ pc' = "fatal"
                     /\ UNCHANGED <<name, sect>>
                ELSE /\ pc' = StepAfter(pc, fmt)
                     /\ name' = args.name[1]
                     /\ sect' = args.section[1]
           ELSE /\ pc' = StepAfter(pc, fmt)
                /\ name' = IF args.name = None THEN m[1].name ELSE args.name[1]
                /\ sect' = IF args.section = None THEN m[1].section ELSE args.section[1]
    /\ UNCHANGED <<fmt, index, description, doc, result, page, output, args, hdr,
                   src, rest, events, plain, wraps, stack, call>>

\* the index file, when one is given, and the construction of the renderer
LoadIndex ==
    /\ pc = "index"
    /\ IF args.index = None
       THEN /\ index' = EmptyIndex
            /\ pc' = StepAfter(pc, fmt)
       ELSE IF "Index" \in DOMAIN args.index[1]
       THEN /\ index' = args.index[1]["Index"]
            /\ pc' = StepAfter(pc, fmt)
       ELSE /\ pc' = "fatal"
            /\ UNCHANGED index
    /\ UNCHANGED <<fmt, name, sect, description, doc, result, page, output, args, hdr,
                   src, rest, events, plain, wraps, stack, call>>

\* mistune.markdown reaches the next block of the source and renders it
RenderBlock ==
    /\ pc = "parse"
    /\ Len(doc) < MaxBlocks
    /\ \E b \in Blocks :
          IF block_fails(fmt, b)
          THEN /\ pc' = "fatal"
               /\ UNCHANGED <<description, result, doc>>
          ELSE /\ pc' = pc
               /\ description' = block_description(description, b)
               /\ result' = result \o block_render(fmt, index, name, sect, b)
               /\ doc' = Append(doc, b)
    /\ UNCHANGED <<fmt, name, sect, index, page, output, args, hdr, src, rest, events,
                   plain, wraps, stack, call>>

\* mistune.markdown returns: the source has no further block
EndParse ==
    /\ pc = "parse"
    /\ pc' = StepAfter(pc, fmt)
    /\ UNCHANGED <<fmt, name, sect, index, description, doc, result, page, output, args,
                   hdr, src, rest, events, plain, wraps, stack, call>>

\* jinja2.Template(template_data).render(...): page holds the variables handed to
\* the template, description being getattr(renderer, 'description', '')
RenderTemplate ==
    /\ pc = "template"
    /\ page' = Some([name |-> name,
                     section |-> sect,
                     description |-> IF description = <<>> THEN <<>> ELSE description[1],
                     content |-> result])
    /\ pc' = StepAfter(pc, fmt)
    /\ UNCHANGED <<fmt, name, sect, index, description, doc, result, output, args, hdr,
                   src, rest, events, plain, wraps, stack, call>>

\* print(result), or open(args.output, 'w') and fp.write(result); for html the
\* result is the page the template made of the variables in page
WriteOutput ==
    /\ pc = "write"
    /\ output' = Some([to |-> args.output, content |-> result, page |-> page])
    /\ pc' = StepAfter(pc, fmt)
    /\ UNCHANGED <<fmt, name, sect, index, description, doc, result, page, args, hdr,
                   src, rest, events, plain, wraps, stack, call>>

Next == ResolveName \/ LoadIndex \/ RenderBlock \/ EndParse \/ RenderTemplate \/ WriteOutput

Spec == Init /\ [][Next]_vars

\* C2: a run that ends in a fatal error has written nothing, and whatever was
\* written was written after the parser and, for html, the template had run.
C2_NoPartialOutput ==
    /\ pc = "fatal" => output = <<>>
    /\ output # <<>> =>
          /\ pc = "done"
          /\ output[1].content = result
          /\ fmt = "html" => page # <<>> /\ output[1].page = page

\* a run died in the parser after it had rendered part of the document
C2_Witness == pc = "fatal" /\ result # <<>> /\ output = <<>>

\* the level-1 headers of a document, in order
RECURSIVE Level1Headers(_)
Level1Headers(d) ==
    IF d = <<>> THEN <<>>
    ELSE IF Head(d).type = "header" /\ Head(d).level = 1
    THEN <<Head(d)>> \o Level1Headers(Tail(d))
    ELSE Level1Headers(Tail(d))

\* C9: the description handed to the HTML template is the one of the document's
\* first level-1 header, or the empty string when the document has none.
C9_Original ==
    (fmt = "html" /\ page # <<>>) =>
        page[1].description =
            IF Level1Headers(doc) = <<>> THEN <<>>
            ELSE header_description(Level1Headers(doc)[1].raw)

-----------------------------------------------------------------------------
(* SpecInline: the inline lexer on one inline source text, rule by rule,   *)
(* each event rendered as it is emitted.                                   *)

AKey == <<"a", "(", "1", ")">>

AUrl == <<"h", "t", "t", "p", ":", "/", "/", "a", "/", "1">>

InlineIndexes == {EmptyIndex, [k \in {AKey} |-> AUrl], [k \in {<<"a">>, <<"a", "a", "(", "1", ")">>} |-> AUrl]}

CitationAlphabet == {"a", "1", "(", ")"}

InlineSources ==
    Strings(CitationAlphabet, MaxSrcLen)
        \cup {<<"m", "d", "5", "s", "u", "m", "(", "1", ")">>, <<"u", "t", "f", "8", "(", "7", ")">>, <<"a", " ", " ", "\n", "a">>, <<"a", " ", " ", " ", "\n", "a", "(", "1", ")">>, <<"a", " ", "\n", "a">>}

InitInline ==
    /\ pc = "inline"
    /\ fmt \in Formats
    /\ index \in InlineIndexes
    /\ src \in InlineSources
    /\ rest = src
    /\ events = <<>>
    /\ result = <<>>
    /\ name = <<"m", "r", "k", "d">> /\ sect = <<"1">>
    /\ description = <<>> /\ doc = <<>> /\ page = <<>> /\ output = <<>> /\ args = <<>>
    /\ hdr = <<>> /\ plain = <<>> /\ wraps = <<>> /\ stack = <<>> /\ call = <<>>

\* output_reference: the reference rule matches first
LexReference ==
    /\ pc = "inline" /\ rest # <<>>
    /\ LET m == lex_first(rest)
       IN  /\ m.event.type = "reference"
           /\ events' = Append(events, m.event)
           /\ result' = result \o render_reference(fmt, m.event.text, m.event.section, index)
           /\ rest' = Drop(rest, m.len)
    /\ UNCHANGED <<pc, fmt, name, sect, index, description, doc, page, output, args, hdr,
                   src, plain, wraps, stack, call>>

\* output_linebreak: renderer.linebreak(), which RoffRenderer answers with assert 0
LexLinebreak ==
    /\ pc = "inline" /\ rest # <<>>
    /\ LET m == lex_first(rest)
       IN  /\ m.event.type = "linebreak"
           /\ events' = Append(events, m.event)
           /\ rest' = Drop(rest, m.len)
           /\ IF linebreak_fails(fmt)
              THEN pc' = "fatal" /\ UNCHANGED result
              ELSE pc' = pc /\ result' = result \o Html_linebreak
    /\ UNCHANGED <<fmt, name, sect, index, description, doc, page, output, args, hdr,
                   src, plain, wraps, stack, call>>

\* output_text: no other rule matches
LexText ==
    /\ pc = "inline" /\ rest # <<>>
    /\ LET m == lex_first(rest)
       IN  /\ m.event.type = "text"
           /\ events' = Append(events, m.event)
           /\ result' = result \o render_text(fmt, m.event.text)
           /\ rest' = Drop(rest, m.len)
    /\ UNCHANGED <<pc, fmt, name, sect, index, description, doc, page, output, args, hdr,
                   src, plain, wraps, stack, call>>

NextInline == LexReference \/ LexLinebreak \/ LexText

SpecInline == InitInline /\ [][NextInline]_vars

\* a citation as the claim has it rendered: the bold name and (section), inside an
\* anchor to the index value of name(section) for html when the index has that key
Citation(f, idx, e) ==
    LET bold == IF f = "html" THEN <<"<", "s", "t", "r", "o", "n", "g", ">">> \o e.text \o <<"<", "/", "s", "t", "r", "o", "n", "g", ">">>
                ELSE <<"\\", "f", "B">> \o e.text \o <<"\\", "f", "R">>
        cited == bold \o <<"(">> \o e.section \o <<")">>
        key == e.text \o <<"(">> \o e.section \o <<")">>
    IN  IF f = "html" /\ key \in DOMAIN idx
        THEN <<"<", "a", " ", "h", "r", "e", "f", "=", "\"">> \o idx[key] \o <<"\"", ">">> \o cited \o <<"<", "/", "a", ">">>
        ELSE cited

RECURSIVE Rendered(_, _, _)
Rendered(f, idx, evs) ==
    IF evs = <<>> THEN <<>>
    ELSE (IF Head(evs).type = "reference" THEN Citation(f, idx, Head(evs))
          ELSE IF Head(evs).type = "linebreak" THEN <<"<", "b", "r", ">", "\n">>
          ELSE render_text(f, Head(evs).text))
         \o Rendered(f, idx, Tail(evs))

\* C3: every citation is rendered as the bold name followed by (section); the
\* HTML renderer puts it in an anchor to the index value of name(section) exactly
\* when the index has that key, and the Roff renderer never emits an anchor.
C3_CitationAnchors ==
    pc = "inline" =>
        /\ result = Rendered(fmt, index, events)
        /\ fmt = "roff" => ~contains(result, <<"<", "a">>)

\* the HTML renderer has rendered a citation whose key is in the index
C3_Witness ==
    /\ pc = "inline" /\ fmt = "html"
    /\ \E i \in 1..Len(events) :
          /\ events[i].type = "reference"
          /\ events[i].text \o <<"(">> \o events[i].section \o <<")">> \in DOMAIN index
    /\ contains(result, <<"<", "a", " ", "h", "r", "e", "f", "=", "\"", "h", "t", "t", "p", ":", "/", "/", "a", "/", "1", "\"", ">", "<", "s", "t", "r", "o", "n", "g", ">">>)

\* the identifier characters the claim names: letters, digits, hyphen, underscore, dot
CitationChars == ident_chars \cup Range(digits)

\* s is IDENT(DIGITS) with an identifier of n characters
IsCitation(s, n) ==
    /\ n >= 1 /\ Len(s) >= n + 3
    /\ \A i \in 1..n : s[i] \in CitationChars
    /\ s[n + 1] = "("
    /\ \A i \in (n + 2)..(Len(s) - 1) : s[i] \in Range(digits)
    /\ s[Len(s)] = ")"

\* C4: a citation IDENT(DIGITS), IDENT a run of letters, digits, hyphen, underscore
\* and dot, is lexed into exactly one Reference event whose name is the whole
\* identifier and whose section is the digit string (stated here for the
\* identifiers that begin with a letter, as md5sum and utf8 do).
C4_Original ==
    \A n \in 1..Len(src) :
        (pc = "inline" /\ rest = <<>> /\ IsCitation(src, n)
            /\ src[1] \in Range(ascii_lowercase)) =>
            events = <<Event("reference", SubSeq(src, 1, n), SubSeq(src, n + 2, Len(src) - 1))>>

\* what holds instead: an identifier of letters, hyphen, underscore and dot
C4_LettersOnly ==
    \A n \in 1..Len(src) :
        (pc = "inline" /\ rest = <<>> /\ IsCitation(src, n)
            /\ \A i \in 1..n : src[i] \in ident_chars) =>
            events = <<Event("reference", SubSeq(src, 1, n), SubSeq(src, n + 2, Len(src) - 1))>>

-----------------------------------------------------------------------------
(* SpecNest: a plain text rendered by RoffRenderer.text and then handed,   *)
(* already rendered, to the methods of the inline constructs around it.    *)

PlainAlphabet == {"a", ".", "\\"}

VersionText == <<"v", "1", ".", "0", ".">>

PlainTexts == Strings(PlainAlphabet, MaxPlainLen) \cup {VersionText}

LinkUrl == <<"u">>

InitNest ==
    /\ pc = "plain"
    /\ fmt = "roff"
    /\ plain \in PlainTexts
    /\ result = <<>>
    /\ wraps = <<>>
    /\ index = EmptyIndex
    /\ name = <<"m", "r", "k", "d">> /\ sect = <<"1">>
    /\ description = <<>> /\ doc = <<>> /\ page = <<>> /\ output = <<>> /\ args = <<>>
    /\ hdr = <<>> /\ src = <<>> /\ rest = <<>> /\ events = <<>>
    /\ stack = <<>> /\ call = <<>>

\* output_text: renderer.text(plain)
RenderText ==
    /\ pc = "plain"
    /\ result' = Roff_text(plain)
    /\ pc' = "inline"
    /\ UNCHANGED <<fmt, name, sect, index, description, doc, page, output, args, hdr,
                   src, rest, events, plain, wraps, stack, call>>

Wrap(construct, rendering) ==
    /\ pc = "inline"
    /\ Len(wraps) < MaxWraps
    /\ result' = rendering
    /\ wraps' = Append(wraps, construct)
    /\ UNCHANGED <<pc, fmt, name, sect, index, description, doc, page, output, args, hdr,
                   src, rest, events, plain, stack, call>>

\* output_emphasis: renderer.emphasis(rendered children)
Emphasis == Wrap("emphasis", Roff_emphasis(result))

\* output_double_emphasis: renderer.double_emphasis(rendered children)
DoubleEmphasis == Wrap("double_emphasis", Roff_double_emphasis(result))

\* output_strikethrough: renderer.strikethrough(rendered children)
Strikethrough == Wrap("strikethrough", Roff_strikethrough(result))

\* output_link: renderer.link(link, title, rendered children)
Link == \E title \in {None, Some(<<"t">>)} : Wrap("link", Roff_link(LinkUrl, title, Some(result)))

NextNest == RenderText \/ Emphasis \/ DoubleEmphasis \/ Strikethrough \/ Link

SpecNest == InitNest /\ [][NextNest]_vars

\* each backslash doubled and each period prefixed by one backslash
RECURSIVE Escaped(_)
Escaped(t) ==
    IF t = <<>> THEN <<>>
    ELSE (IF Head(t) = "\\" THEN <<"\\", "\\">>
          ELSE IF Head(t) = "." THEN <<"\\", ".">>
          ELSE <<Head(t)>>) \o Escaped(Tail(t))

\* the number of backslashes right before place i of s
RECURSIVE BackslashesBefore(_, _)
BackslashesBefore(s, i) ==
    IF i > 1 /\ s[i - 1] = "\\" THEN 1 + BackslashesBefore(s, i - 1) ELSE 0

\* C7: RoffRenderer.text doubles each backslash and prefixes each period with one
\* backslash, so that no period of its result is unescaped; v1.0. becomes v1\.0\.
C7_TextEscaped ==
    (pc = "inline" /\ wraps = <<>>) =>
        /\ result = Escaped(plain)
        /\ \A i \in 1..Len(result) :
              result[i] = "." => BackslashesBefore(result, i) % 2 = 1
        /\ plain = VersionText => result = <<"v", "1", "\\", ".", "0", "\\", ".">>

\* a text that holds a backslash and a period was rendered
C7_Witness ==
    /\ pc = "inline" /\ wraps = <<>>
    /\ "\\" \in Range(plain) /\ "." \in Range(plain)
    /\ Len(result) = 2 * Len(plain)

\* C10: whatever inline constructs enclose a plain text, their rendering holds
\* the escaped text unchanged: it is escaped exactly once.
C10_Original == pc = "inline" => contains(result, Escaped(plain))

\* what holds instead: the constructs other than strikethrough keep it unchanged
C10_WithoutStrikethrough ==
    (pc = "inline" /\ "strikethrough" \notin Range(wraps)) => contains(result, Escaped(plain))

-----------------------------------------------------------------------------
(* SpecList: the parser's walk of a list, nested lists included.  stack    *)
(* holds the lists that are open, innermost last; each frame keeps the     *)
(* body accumulated so far (the list_item results, concatenated), the      *)
(* texts handed to list_item, and the text of the item that is open.       *)

\* the texts of list items in the source; the second holds the character '\0'
ItemTexts == {<<"a">>, <<"b", NUL, "c">>}

Frame(ordered) ==
    [ordered |-> ordered, body |-> <<>>, items |-> <<>>, item |-> <<>>, open |-> FALSE,
     nested |-> FALSE]

Top == stack[Len(stack)]

SetTop(f) == [stack EXCEPT ![Len(stack)] = f]

InitList ==
    /\ pc = "blocks"
    /\ fmt = "roff"
    /\ stack = <<>>
    /\ call = <<>>
    /\ result = <<>>
    /\ index = EmptyIndex
    /\ name = <<"m", "r", "k", "d">> /\ sect = <<"1">>
    /\ description = <<>> /\ doc = <<>> /\ page = <<>> /\ output = <<>> /\ args = <<>>
    /\ hdr = <<>> /\ src = <<>> /\ rest = <<>> /\ events = <<>>
    /\ plain = <<>> /\ wraps = <<>>

\* list_start: output_list begins a list, at the top level or inside an open item
StartList ==
    /\ pc = "blocks"
    /\ Len(stack) < MaxDepth
    /\ \/ stack = <<>> /\ result = <<>>
       \/ stack # <<>> /\ Top.open /\ ~Top.nested
    /\ \E ordered \in BOOLEAN : stack' = Append(stack, Frame(ordered))
    /\ UNCHANGED <<pc, fmt, name, sect, index, description, doc, result, page, output,
                   args, hdr, src, rest, events, plain, wraps, call>>

\* list_item_start and its text: output_list_item renders the item's inline text
StartItem ==
    /\ pc = "blocks"
    /\ stack # <<>> /\ ~Top.open
    /\ Len(Top.items) < MaxItems
    /\ \E t \in ItemTexts :
          stack' = SetTop([Top EXCEPT !.open = TRUE, !.nested = FALSE,
                                      !.item = inline(fmt, index, t)])
    /\ UNCHANGED <<pc, fmt, name, sect, index, description, doc, result, page, output,
                   args, hdr, src, rest, events, plain, wraps, call>>

\* list_item_end: renderer.list_item(the item's rendered content)
EndItem ==
    /\ pc = "blocks"
    /\ stack # <<>> /\ Top.open
    /\ stack' = SetTop([Top EXCEPT !.open = FALSE,
                                   !.body = Top.body \o Roff_list_item(Top.item),
                                   !.items = Append(Top.items, Top.item)])
    /\ UNCHANGED <<pc, fmt, name, sect, index, description, doc, result, page, output,
                   args, hdr, src, rest, events, plain, wraps, call>>

\* list_end: renderer.list(body, ordered); its result goes into the item of the
\* enclosing list, or into the output at the top level
EndList ==
    /\ pc = "blocks"
    /\ stack # <<>> /\ ~Top.open
    /\ Len(Top.items) >= 1
    /\ IF Roff_list_fails(Top.body, Top.ordered)
       THEN /\ pc' = "fatal"
            /\ UNCHANGED <<stack, result, call>>
       ELSE LET out == Roff_list(Top.body, Top.ordered)
                outer == SubSeq(stack, 1, Len(stack) - 1)
            IN  /\ call' = Some([body |-> Top.body, ordered |-> Top.ordered,
                                 items |-> Top.items, out |-> out])
                /\ IF outer = <<>>
                   THEN /\ stack' = outer
                        /\ result' = result \o out
                        /\ pc' = "done"
                   ELSE /\ stack' = [outer EXCEPT ![Len(outer)] =
                                        [@ EXCEPT !.item = @ \o out, !.nested = TRUE]]
                        /\ UNCHANGED <<pc, result>>
    /\ UNCHANGED <<fmt, name, sect, index, description, doc, page, output, args, hdr,
                   src, rest, events, plain, wraps>>

NextList == StartList \/ StartItem \/ EndItem \/ EndList

SpecList == InitList /\ [][NextList]_vars

\* the .IP blocks of a list, one per item, numbered from n when ordered
RECURSIVE ItemBlocks(_, _, _)
ItemBlocks(items, ordered, n) ==
    IF items = <<>> THEN <<>>
    ELSE (IF ordered THEN <<".", "I", "P", " ">> \o str(n) \o <<"\\", ".">> ELSE <<".", "I", "P", " ", "\\", "[", "b", "u", "]">>)
             \o <<"\n">> \o Head(items) \o <<"\n">>
             \o ItemBlocks(Tail(items), ordered, n + 1)

Count(c, s) == Cardinality({i \in 1..Len(s) : s[i] = c})

\* C5: a list of k items is rendered as exactly k .IP blocks in item order, each
\* followed by the text of its item, numbered 1..k when the list is ordered and
\* marked \[bu] when it is not.
C5_Original ==
    call # <<>> =>
        call[1].out = <<"\n", ".", "R", "S", "\n">> \o ItemBlocks(call[1].items, call[1].ordered, 1)
                          \o <<"\n", ".", "R", "E", "\n">>

\* C6: at every call of list() the body starts with the sentinel, holds exactly one
\* sentinel per direct item, and the returned string holds no sentinel.
C6_Original ==
    /\ pc # "fatal"
    /\ call # <<>> =>
          /\ call[1].body[1] = NUL
          /\ split(call[1].body, <<NUL>>)[1] = <<>>
          /\ Count(NUL, call[1].body) = Len(call[1].items)
          /\ NUL \notin Range(call[1].out)

\* what holds of the lists whose items hold no sentinel of their own
C5_SentinelFree ==
    (call # <<>> /\ \A i \in 1..Len(call[1].items) : NUL \notin Range(call[1].items[i])) =>
        call[1].out = <<"\n", ".", "R", "S", "\n">> \o ItemBlocks(call[1].items, call[1].ordered, 1)
                          \o <<"\n", ".", "R", "E", "\n">>

C6_SentinelFree ==
    /\ pc # "fatal"
    /\ call # <<>> =>
          /\ call[1].body[1] = NUL
          /\ split(call[1].body, <<NUL>>)[1] = <<>>
          /\ NUL \notin Range(call[1].out)
          /\ (\A i \in 1..Len(call[1].items) : NUL \notin Range(call[1].items[i]))
                => Count(NUL, call[1].body) = Len(call[1].items)

====
